---- MODULE Spec2Model ----
(***************************************************************************)
(* Model of tn_compose_cli.py: the TrueNAS session (TNSession), the job    *)
(* watcher (watch_job), the reconciler (deploy_app, update_app, main) and  *)
(* the canonicalizer (canonicalize, json_equivalent).                      *)
(***************************************************************************)
EXTENDS Integers, Sequences, FiniteSets, TLC

\* ------------------------------------------------------------------ bounds
\* Largest integer scalar of a generated document.
MaxScalar == 2
\* Longest list of a generated document.
MaxLen == 2

\* ------------------------------------------------------------ documents
\* A document tree (what yaml.safe_load / json.loads / the RPCs return):
\*   <<"n", i>>   an integer scalar
\*   <<"u", 0>>   a scalar json.dumps cannot serialize (a YAML timestamp)
\*   <<"l", s>>   a list, s the sequence of its elements
\*   <<"d", s>>   a dict, s the sequence of its <<key, value>> items in
\*                insertion order, keys distinct
Num(i) == <<"n", i>>
Unser == <<"u", 0>>
List(s) == <<"l", s>>
Dict(s) == <<"d", s>>

Keys == {"a", "b"}

\* The code point of a key (keys are one-letter strings).
KeyCode(k) == IF k = "a" THEN 97 ELSE 98

\* Sequences over S of length at most n.
SeqsUpTo(S, n) == UNION {[1..k -> S] : k \in 0..n}

\* A sequence of items whose keys are pairwise distinct.
DistinctKeys(s) == \A i, j \in 1..Len(s) : i # j => s[i][1] # s[j][1]

Scalars == {Num(i) : i \in 1..MaxScalar} \cup {Unser}
Lists(S) == {List(s) : s \in SeqsUpTo(S, MaxLen)}
Dicts(S) == {Dict(s) : s \in {t \in SeqsUpTo(Keys \X S, Cardinality(Keys)) : DistinctKeys(t)}}
Docs1 == Scalars \cup Lists(Scalars) \cup Dicts(Scalars)
Docs2 == Docs1 \cup Lists(Docs1) \cup Dicts(Docs1)

\* ---------------------------------------------------------- canonicalizer
\* Python's str comparison: lexicographic by code point, a proper prefix first.
RECURSIVE StrLess(_, _)
StrLess(a, b) ==
    IF b = <<>> THEN FALSE
    ELSE IF a = <<>> THEN TRUE
    ELSE IF Head(a) # Head(b) THEN Head(a) < Head(b)
    ELSE StrLess(Tail(a), Tail(b))

\* sorted(seq, key=...): a stable sort of the items by their keys; keyOf[i] is
\* the key of the i-th item, compared by StrLess.
RECURSIVE InsertByKey(_, _, _)
InsertByKey(x, kx, sorted) ==
    \* sorted is a sequence of <<key, item>>; x goes after every item whose key
    \* is not greater (stability).
    IF sorted = <<>> THEN <<<<kx, x>>>>
    ELSE IF StrLess(kx, Head(sorted)[1]) THEN <<<<kx, x>>>> \o sorted
    ELSE <<Head(sorted)>> \o InsertByKey(x, kx, Tail(sorted))

RECURSIVE SortKeyed(_, _)
SortKeyed(keyed, acc) ==
    IF keyed = <<>> THEN acc
    ELSE SortKeyed(Tail(keyed), InsertByKey(Head(keyed)[2], Head(keyed)[1], acc))

StableSort(keyed) == [i \in 1..Len(keyed) |-> SortKeyed(keyed, <<>>)[i][2]]

\* Whether json.dumps accepts the document (it raises TypeError otherwise).
RECURSIVE Serializable(_)
Serializable(d) ==
    CASE d[1] = "n" -> TRUE
      [] d[1] = "u" -> FALSE
      [] d[1] = "l" -> \A i \in 1..Len(d[2]) : Serializable(d[2][i])
      [] d[1] = "d" -> \A i \in 1..Len(d[2]) : Serializable(d[2][i][2])

\* The items of a dict in the order of sorted(obj.keys()).
SortedItems(items) ==
    StableSort([i \in 1..Len(items) |-> <<<<KeyCode(items[i][1])>>, items[i]>>])

RECURSIVE JoinComma(_)
JoinComma(parts) ==
    IF parts = <<>> THEN <<>>
    ELSE IF Len(parts) = 1 THEN parts[1]
    ELSE parts[1] \o <<44, 32>> \o JoinComma(Tail(parts))

\* json.dumps(v, sort_keys=True) as the sequence of the code points of its text,
\* for a serializable document: digits, "[a, b]", {"k": v} with the keys sorted.
RECURSIVE Dumps(_)
Dumps(d) ==
    CASE d[1] = "n" -> <<48 + d[2]>>
      [] d[1] = "l" ->
            <<91>> \o JoinComma([i \in 1..Len(d[2]) |-> Dumps(d[2][i])]) \o <<93>>
      [] d[1] = "d" ->
            LET it == SortedItems(d[2]) IN
            <<123>>
            \o JoinComma([i \in 1..Len(it) |->
                   <<34, KeyCode(it[i][1]), 34, 58, 32>> \o Dumps(it[i][2])])
            \o <<125>>

\* The list sorted by each element's serialized form (line 220's sorted call).
SortedByDumps(s) == StableSort([i \in 1..Len(s) |-> <<Dumps(s[i]), s[i]>>])

RECURSIVE canonicalize(_)
canonicalize(obj) ==
    CASE obj[1] = "d" ->
            LET it == SortedItems(obj[2]) IN
            Dict([i \in 1..Len(it) |-> <<it[i][1], canonicalize(it[i][2])>>])
      [] obj[1] = "l" ->
            IF \A i \in 1..Len(obj[2]) : Serializable(obj[2][i])
            THEN LET s == SortedByDumps(obj[2]) IN
                 List([i \in 1..Len(s) |-> canonicalize(s[i])])
            ELSE List([i \in 1..Len(obj[2]) |-> canonicalize(obj[2][i])])
      [] OTHER -> obj

\* Python's == on two documents: lists compare in order, dicts compare as
\* key -> value maps whatever the insertion order.
RECURSIVE PyEq(_, _)
PyEq(a, b) ==
    /\ a[1] = b[1]
    /\ CASE a[1] = "n" -> a[2] = b[2]
         [] a[1] = "u" -> TRUE
         [] a[1] = "l" ->
               /\ Len(a[2]) = Len(b[2])
               /\ \A i \in 1..Len(a[2]) : PyEq(a[2][i], b[2][i])
         [] a[1] = "d" ->
               /\ Len(a[2]) = Len(b[2])
               /\ \A i \in 1..Len(a[2]) : \E j \in 1..Len(b[2]) :
                      /\ a[2][i][1] = b[2][j][1]
                      /\ PyEq(a[2][i][2], b[2][j][2])

json_equivalent(a, b) == PyEq(canonicalize(a), canonicalize(b))

\* ------------------------------------------------------------- environment
\* Most failures (raised exceptions, falsy logins) the transport injects in a run.
MaxFaults == 2
\* Most polls of one watch_job in a whole run of main.
MaxPollsRun == 1
\* Most polls of one watch_job when the watcher is explored on its own.
MaxPolls == 4
\* Most entries of the compose directory.
MaxFiles == 2
\* Most polls of one watch_job when its termination is explored.
MaxLivePolls == 3
\* Most transports a session driven on its own connects by open() or call().
MaxTransports == 3

\* _retries=1: the default retry budget of TNSession.call.
retries == 1
\* deploy_app(file, is_compose=True): the only mode main uses.
is_compose == TRUE

\* Python's None, for the values that are strings or None.
None == "None"

\* The desired document of a valid definition, and what app.config may return:
\* the same document with keys and list reordered, or a drifted one.
DesiredDoc == Dict(<<<<"b", List(<<Num(2), Num(1)>>)>>, <<"a", Num(1)>>>>)
RemoteConfigs ==
    {Dict(<<<<"a", Num(1)>>, <<"b", List(<<Num(1), Num(2)>>)>>>>),
     Dict(<<<<"a", Num(2)>>, <<"b", List(<<Num(2), Num(1)>>)>>>>)}

\* A directory entry, in sorted(iterdir()) order; its name is its position.
\*   kind "dir": not a regular file; "ok": a .yaml/.yml/.json file holding a
\*   mapping; "badext": another extension; "malformed": unparsable content;
\*   "notmapping": a parsable file whose top-level value is no dict.
EntryKinds == {"dir", "ok", "badext", "malformed", "notmapping"}
Batches == SeqsUpTo(EntryKinds, MaxFiles)

JobIds == {"j1", "j2"}
Terminal == {"SUCCESS", "FAILED", "ABORTED"}
JobStates == {"RUNNING"} \cup Terminal
Percents == {None, "0", "50", "100"}
Descriptions == {None, "pulling"}
Excerpts == {None, "log"}
\* The job records core.get_jobs may return (the fields watch_job reads).
JobRecords ==
    [state : JobStates, percent : Percents, description : Descriptions,
     logs_excerpt : Excerpts]

\* A value an RPC (or TNSession.call) returns, tagged with its kind.
NoneVal == [kind |-> "None", v |-> None]
Val(kind, v) == [kind |-> kind, v |-> v]

\* What a successful RPC of the method may return.
Results(method) ==
    CASE method = "docker.status" ->
            {Val("status", s) : s \in {"RUNNING", "UNCONFIGURED", "STOPPED"}}
      [] method = "app.query" -> {Val("rows", <<>>), Val("rows", <<"app">>)}
      [] method = "app.config" -> {Val("doc", d) : d \in RemoteConfigs}
      [] method \in {"app.create", "app.update"} -> {Val("id", j) : j \in JobIds}
      [] method = "core.get_jobs" -> {Val("job", r) : r \in JobRecords}

\* Python truthiness of a returned value (None and the empty list are falsy).
Truthy(val) ==
    CASE val.kind = "None" -> FALSE
      [] val.kind = "rows" -> val.v # <<>>
      [] OTHER -> TRUE

VARIABLES
    pc,            \* where main is
    exit,          \* how the process ended: "none", "SystemExit", "error"
    files,         \* sorted(args.compose_dir.iterdir())
    idx,           \* entries of files the loop has taken
    status,        \* validate_truenas's status: what docker.status returned
    c,             \* TNSession._c: 0 is None, else the index of a transport
    transports,    \* every Client made so far: [open, authed, closes]
    cpc,           \* where TNSession.call is: "idle", "try", "ret", "exc"
    cur,           \* the call in progress: method, params, attempt, sent
    ret,           \* what the last call returned
    faults,        \* failures the transport may still inject
    pollCap,       \* polls one watch_job may make
    app_name,      \* deploy_app's app_name: file_path.stem, here the position
    desired,       \* deploy_app's desired_config
    app_exists,    \* deploy_app's app_exists: what app.query returned
    current_config, \* deploy_app's current_config: what app.config returned
    decision,      \* the status line deploy_app printed: CREATE, UPDATE, SKIP
    calls,         \* the SESSION.call invocations made for this definition (or
                   \* by validate_truenas): method and params
    submitted,     \* what the app.create / app.update RPC itself answered
    job_id,        \* watch_job's job_id
    last_percent, last_desc, last_excerpt,   \* watch_job's locals
    polled,        \* state, percent and description of every record fetched
    lines,         \* the status lines printed: [at, percent, description]
    fetched,       \* what the core.get_jobs RPC answered on the poll watch_job
                   \* returned on
    watched,       \* the record watch_job returned, or NoneVal
    cx, cy,        \* the canonicalizer's input and successive outputs
    ea, eb,        \* json_equivalent's arguments a and b
    eres           \* what json_equivalent answered, <<>> before it ran

mainVars == <<pc, exit, files, idx, status>>
sessVars == <<c, transports>>
callVars == <<cpc, cur, ret>>
envVars == <<faults, pollCap>>
deployVars == <<app_name, desired, app_exists, current_config, decision, calls, submitted, job_id>>
watchVars == <<last_percent, last_desc, last_excerpt, polled, lines, fetched, watched>>
canonVars == <<cx, cy, ea, eb, eres>>
vars == <<mainVars, sessVars, callVars, envVars, deployVars, watchVars, canonVars>>

\* ---------------------------------------------------------------- TNSession
NoCall == [method |-> None, params |-> <<>>, attempt |-> 0, sent |-> <<>>, exc |-> "none"]

\* A close that drops the handle without releasing the transport.
CloseTransportsLeak(cc, tr) == tr

\* TNSession.close on handle cc: the transport is released and _c is None.
CloseTransports(cc, tr) ==
    IF cc = 0 THEN tr
    ELSE [tr EXCEPT ![cc] = [@ EXCEPT !.open = FALSE, !.closes = @ + 1]]

\* An open that connects whether or not a handle is held.
OpenOutcomesAlways(cc, budget) ==
    {"ok"} \cup (IF budget > 0 THEN {"connect_raise", "auth_falsy", "auth_raise"} ELSE {})

\* What the transport may do to an open(): "noop" when a handle is held, else
\* the connection is made and the login returns truthy ("ok"), Client() raises
\* ("connect_raise"), the login returns falsy ("auth_falsy") or raises
\* ("auth_raise").
OpenOutcomes(cc, budget) ==
    IF cc # 0 THEN {"noop"}
    ELSE {"ok"} \cup (IF budget > 0 THEN {"connect_raise", "auth_falsy", "auth_raise"} ELSE {})

OpenCost(o) == IF o \in {"noop", "ok"} THEN 0 ELSE 1

\* An open that closes the transport after a falsy login and then returns.
openNoRaise(cc, tr, o) ==
    LET n == Len(tr) + 1 IN
    CASE o = "noop" -> [c |-> cc, transports |-> tr, exc |-> "none"]
      [] o = "connect_raise" -> [c |-> 0, transports |-> tr, exc |-> "error"]
      [] o = "ok" ->
            [c |-> n, exc |-> "none",
             transports |-> Append(tr, [open |-> TRUE, authed |-> TRUE, closes |-> 0])]
      [] o = "auth_falsy" ->
            [c |-> 0, exc |-> "none",
             transports |->
                 CloseTransports(n, Append(tr, [open |-> TRUE, authed |-> FALSE, closes |-> 0]))]
      [] o = "auth_raise" ->
            [c |-> n, exc |-> "error",
             transports |-> Append(tr, [open |-> TRUE, authed |-> FALSE, closes |-> 0])]

\* TNSession.open from handle cc under outcome o: the new handle, the
\* transports, and the exception raised ("none" when it returns).
open(cc, tr, o) ==
    LET n == Len(tr) + 1 IN
    CASE o = "noop" -> [c |-> cc, transports |-> tr, exc |-> "none"]
      [] o = "connect_raise" -> [c |-> 0, transports |-> tr, exc |-> "error"]
      [] o = "ok" ->
            [c |-> n, exc |-> "none",
             transports |-> Append(tr, [open |-> TRUE, authed |-> TRUE, closes |-> 0])]
      [] o = "auth_falsy" ->
            [c |-> 0, exc |-> "SystemExit",
             transports |->
                 CloseTransports(n, Append(tr, [open |-> TRUE, authed |-> FALSE, closes |-> 0]))]
      [] o = "auth_raise" ->
            [c |-> n, exc |-> "error",
             transports |-> Append(tr, [open |-> TRUE, authed |-> FALSE, closes |-> 0])]

\* The SESSION.call main is about to make, by where it is.
CallAt(p) ==
    CASE p = "validate_truenas" -> [method |-> "docker.status", params |-> <<>>]
      [] p = "query" -> [method |-> "app.query", params |-> <<app_name>>]
      [] p = "config" -> [method |-> "app.config", params |-> <<app_name>>]
      [] p = "update" ->
            [method |-> "app.update",
             params |-> <<app_name, IF is_compose
                               THEN [custom_compose_config |-> desired]
                               ELSE [values |-> <<>>]>>]
      [] p = "create" ->
            [method |-> "app.create",
             params |-> <<IF is_compose
                          THEN [app_name |-> app_name, custom_app |-> TRUE,
                                custom_compose_config |-> desired]
                          ELSE desired>>]
      [] p = "watch" -> [method |-> "core.get_jobs", params |-> <<job_id>>]
      [] p = "session" -> [method |-> "docker.status", params |-> <<>>]
CallSites == {"validate_truenas", "query", "config", "update", "create", "watch", "session"}

\* TNSession.call, line 67: self.open(), then the loop is entered.
SessionCall ==
    /\ pc \in CallSites
    /\ cpc = "idle"
    /\ pc = "watch" => Len(polled) < pollCap
    /\ \E o \in OpenOutcomes(c, faults) :
          LET r == open(c, transports, o) IN
          /\ c' = r.c
          /\ transports' = r.transports
          /\ faults' = faults - OpenCost(o)
          /\ cur' = [CallAt(pc) @@ NoCall EXCEPT !.exc = r.exc]
          /\ cpc' = IF r.exc = "none" THEN "try" ELSE "exc"
    /\ calls' = Append(calls, CallAt(pc))
    /\ UNCHANGED <<mainVars, ret, pollCap, app_name, desired, app_exists, current_config, decision,
                   submitted, job_id, watchVars, canonVars>>

\* What one RPC attempt may do: succeed with a value, raise a non-transient
\* error, or raise a transient one (rate limit, broken pipe, closed), after
\* which close() and open() run under the reopen outcome.
AttemptOutcomes(method, budget) ==
    {[kind |-> "ok", v |-> v, reopen |-> "noop"] : v \in Results(method)}
    \cup (IF budget > 0
          THEN {[kind |-> "fatal", v |-> NoneVal, reopen |-> "noop"]}
               \cup {[kind |-> "transient", v |-> NoneVal, reopen |-> o] :
                        o \in OpenOutcomes(0, budget - 1)}
          ELSE {})

\* What the loop of TNSession.call does after a transient failure whose
\* reopen succeeded: `continue`, and when range(_retries + 1) is exhausted
\* the function falls off its end and returns None.
AfterTransient(attempt) ==
    IF attempt + 1 < retries + 1 THEN "try" ELSE "ret"

\* A handler that takes every error for a transient one.
IsTransientAny(kind) == TRUE

\* Line 74: whether the handler reconnects on the error (its message names a
\* rate limit, a broken pipe or a closed socket).
IsTransient(kind) == kind = "transient"

\* One iteration of the loop of TNSession.call (lines 68-79).
CallAttempt ==
    /\ cpc = "try"
    /\ \E out \in AttemptOutcomes(cur.method, faults) :
          LET sent == Append(cur.sent, [transport |-> c, kind |-> out.kind, v |-> out.v])
              r == open(0, CloseTransports(c, transports), out.reopen)
          IN
          CASE out.kind = "ok" ->
                  /\ ret' = out.v
                  /\ cpc' = "ret"
                  /\ cur' = [cur EXCEPT !.sent = sent]
                  /\ UNCHANGED <<sessVars, faults>>
            [] out.kind # "ok" /\ ~IsTransient(out.kind) ->
                  /\ cpc' = "exc"
                  /\ cur' = [cur EXCEPT !.sent = sent, !.exc = "error"]
                  /\ faults' = faults - 1
                  /\ UNCHANGED <<sessVars, ret>>
            [] out.kind # "ok" /\ IsTransient(out.kind) ->
                  /\ c' = r.c
                  /\ transports' = r.transports
                  /\ faults' = faults - 1 - OpenCost(out.reopen)
                  /\ cur' = [cur EXCEPT !.sent = sent, !.exc = r.exc,
                                        !.attempt = @ + 1]
                  /\ cpc' = IF r.exc # "none" THEN "exc" ELSE AfterTransient(cur.attempt)
                  /\ ret' = IF r.exc = "none" /\ AfterTransient(cur.attempt) = "ret"
                            THEN NoneVal ELSE ret
    /\ UNCHANGED <<mainVars, pollCap, deployVars, watchVars, canonVars>>

\* What the RPC attempts of a call answered: the value of the attempt that
\* succeeded, NoneVal when none did.
OkResult(sent) ==
    IF \E i \in 1..Len(sent) : sent[i].kind = "ok"
    THEN (CHOOSE e \in {sent[i] : i \in 1..Len(sent)} : e.kind = "ok").v
    ELSE NoneVal

\* Nothing in main catches: an exception out of TNSession.call ends the process.
Uncaught ==
    /\ cpc = "exc"
    /\ pc # "aborted"
    /\ pc' = "aborted"
    /\ exit' = cur.exc
    /\ UNCHANGED <<files, idx, status, sessVars, callVars, envVars, deployVars,
                   watchVars, canonVars>>

\* ------------------------------------------------------------------- main
\* The values of the variables a specification does not use.
EquivIdle == ea = Num(1) /\ eb = Num(1) /\ eres = <<>>
CanonIdle == cx = Num(1) /\ cy = <<>> /\ EquivIdle
DeployIdle ==
    /\ app_name = 0
    /\ desired = None
    /\ app_exists = NoneVal
    /\ current_config = NoneVal
    /\ decision = None
    /\ calls = <<>>
    /\ submitted = NoneVal
    /\ job_id = None
WatchIdle ==
    /\ last_percent = None
    /\ last_desc = None
    /\ last_excerpt = None
    /\ polled = <<>>
    /\ lines = <<>>
    /\ fetched = NoneVal
    /\ watched = NoneVal

\* The state after TNSession.__init__ (line 239), for any compose directory.
Init ==
    /\ pc = "start"
    /\ exit = "none"
    /\ files \in Batches
    /\ idx = 0
    /\ status = NoneVal
    /\ c = 0
    /\ transports = <<>>
    /\ cpc = "idle"
    /\ cur = NoCall
    /\ ret = NoneVal
    /\ faults = MaxFaults
    /\ pollCap = MaxPollsRun
    /\ DeployIdle
    /\ WatchIdle
    /\ CanonIdle

\* Line 240: SESSION.open().
MainOpen ==
    /\ pc = "start"
    /\ \E o \in OpenOutcomes(c, faults) :
          LET r == open(c, transports, o) IN
          /\ c' = r.c
          /\ transports' = r.transports
          /\ faults' = faults - OpenCost(o)
          /\ pc' = IF r.exc = "none" THEN "validate_truenas" ELSE "aborted"
          /\ exit' = r.exc
    /\ UNCHANGED <<files, idx, status, callVars, pollCap, deployVars, watchVars, canonVars>>

\* A gate that only turns away UNCONFIGURED.
GateOpenLax(st) == st # "UNCONFIGURED"

\* Line 92: the status validate_truenas lets through.
GateOpen(st) == st = "RUNNING"

\* validate_truenas, lines 91-96, on what docker.status returned; None has no
\* .get, which raises AttributeError.
ValidateTruenas ==
    /\ pc = "validate_truenas"
    /\ cpc = "ret"
    /\ cpc' = "idle"
    /\ cur' = NoCall
    /\ ret' = NoneVal
    /\ status' = ret
    /\ IF ret.kind # "status"
       THEN pc' = "aborted" /\ exit' = "error"
       ELSE IF GateOpen(ret.v)
       THEN pc' = "loop" /\ exit' = exit
       ELSE pc' = "aborted" /\ exit' = "SystemExit"
    /\ UNCHANGED <<files, idx, sessVars, envVars, deployVars, watchVars, canonVars>>

\* A validation that lets any parsable top-level value through.
validate_and_normalizeAnyShape(entry) ==
    IF entry \in {"ok", "notmapping"} THEN Val("doc", DesiredDoc) ELSE Val("ValueError", None)

\* validate_and_normalize: the parsed mapping, or the ValueError it raises
\* (another extension, malformed content, a top-level value that is no dict).
validate_and_normalize(entry) ==
    IF entry = "ok" THEN Val("doc", DesiredDoc) ELSE Val("ValueError", None)

\* Lines 246-249 and 147-148: the loop takes the next entry; a regular file
\* enters deploy_app, which parses it before any RPC. What is recorded about
\* a definition starts afresh with every entry taken.
MainLoop ==
    /\ pc = "loop"
    /\ IF idx = Len(files)
       THEN /\ pc' = "done"
            /\ UNCHANGED <<exit, idx, deployVars, watchVars>>
       ELSE LET entry == files[idx + 1]
                data == validate_and_normalize(entry)
            IN
            /\ idx' = idx + 1
            /\ app_name' = IF entry = "dir" THEN 0 ELSE idx + 1
            /\ desired' = IF entry # "dir" /\ data.kind = "doc" THEN data.v ELSE None
            /\ decision' = None
            /\ app_exists' = NoneVal
            /\ current_config' = NoneVal
            /\ calls' = <<>>
            /\ submitted' = NoneVal
            /\ job_id' = None
            /\ last_percent' = None
            /\ last_desc' = None
            /\ last_excerpt' = None
            /\ polled' = <<>>
            /\ lines' = <<>>
            /\ fetched' = NoneVal
            /\ watched' = NoneVal
            /\ IF entry = "dir"
               THEN UNCHANGED <<pc, exit>>
               ELSE IF data.kind = "ValueError"
               THEN pc' = "aborted" /\ exit' = "error"
               ELSE pc' = "query" /\ exit' = exit
    /\ UNCHANGED <<files, status, sessVars, callVars, envVars, canonVars>>

\* A comparison of the raw documents, without canonicalize.
needs_updateRaw(desired_config, config) ==
    IF config.kind = "doc" THEN ~PyEq(desired_config, config.v) ELSE TRUE

\* needs_update (line 153); json_equivalent(desired, None) is False.
needs_update(desired_config, config) ==
    IF config.kind = "doc"
    THEN ~json_equivalent(desired_config, config.v)
    ELSE TRUE

\* Lines 151 and 159-167: the branch on app_exists.
DeployQueried ==
    /\ pc = "query"
    /\ cpc = "ret"
    /\ cpc' = "idle"
    /\ cur' = NoCall
    /\ ret' = NoneVal
    /\ app_exists' = ret
    /\ IF Truthy(ret)
       THEN pc' = "config" /\ decision' = decision
       ELSE pc' = "create" /\ decision' = "CREATE"
    /\ UNCHANGED <<exit, files, idx, status, sessVars, envVars, app_name, desired, current_config,
                   calls, submitted, job_id, watchVars, canonVars>>

\* Lines 153-158: update on drift, else skip and return to the loop.
DeployCompared ==
    /\ pc = "config"
    /\ cpc = "ret"
    /\ cpc' = "idle"
    /\ cur' = NoCall
    /\ ret' = NoneVal
    /\ current_config' = ret
    /\ IF needs_update(desired, ret)
       THEN pc' = "update" /\ decision' = "UPDATE"
       ELSE pc' = "loop" /\ decision' = "SKIP"
    /\ UNCHANGED <<exit, files, idx, status, sessVars, envVars, app_name, desired, app_exists,
                   calls, submitted, job_id, watchVars, canonVars>>

\* Lines 143-144 and 168-169: the job id returned is handed to watch_job.
JobSubmitted ==
    /\ pc \in {"update", "create"}
    /\ cpc = "ret"
    /\ cpc' = "idle"
    /\ cur' = NoCall
    /\ ret' = NoneVal
    /\ job_id' = ret.v
    /\ submitted' = OkResult(cur.sent)
    /\ pc' = "watch"
    /\ UNCHANGED <<exit, files, idx, status, sessVars, envVars, app_name, desired, app_exists,
                   current_config, decision, calls, watchVars, canonVars>>

\* A change test that looks at the percent alone.
StatusChangedPercentOnly(pct, desc, lastp, lastd) == pct # lastp

\* Line 119: whether the status line is printed for this record.
StatusChanged(pct, desc, lastp, lastd) == pct # lastp \/ desc # lastd

\* A loop exit that only knows SUCCESS.
IsTerminalSuccessOnly(state) == state = "SUCCESS"

\* A loop exit that does not know ABORTED.
IsTerminalNoAborted(state) == state \in {"SUCCESS", "FAILED"}

\* A loop exit that does not know FAILED.
IsTerminalNoFailed(state) == state \in {"SUCCESS", "ABORTED"}

\* Line 127: whether the loop returns on this state.
IsTerminal(state) == state \in {"SUCCESS", "FAILED", "ABORTED"}

\* watch_job, lines 110-134, on the record core.get_jobs returned.
WatchJob ==
    /\ pc = "watch"
    /\ cpc = "ret"
    /\ cpc' = "idle"
    /\ cur' = NoCall
    /\ ret' = NoneVal
    /\ IF ret.kind # "job"
       THEN /\ pc' = "aborted"
            /\ exit' = "error"
            /\ UNCHANGED watchVars
       ELSE LET job == ret.v
                pct == job.percent
                desc == job.description
                logs == job.logs_excerpt
            IN
            /\ polled' = Append(polled, [state |-> job.state, percent |-> pct,
                                          description |-> desc])
            /\ IF StatusChanged(pct, desc, last_percent, last_desc)
               THEN /\ lines' = Append(lines, [at |-> Len(polled) + 1, percent |-> pct,
                                               description |-> desc])
                    /\ last_percent' = pct
                    /\ last_desc' = desc
               ELSE UNCHANGED <<lines, last_percent, last_desc>>
            /\ last_excerpt' = IF logs # None /\ logs # last_excerpt THEN logs ELSE last_excerpt
            /\ IF IsTerminal(job.state)
               THEN pc' = "loop" /\ watched' = ret
               ELSE pc' = "watch" /\ watched' = watched
            /\ fetched' = IF IsTerminal(job.state) THEN OkResult(cur.sent) ELSE fetched
            /\ exit' = exit
    /\ UNCHANGED <<files, idx, status, sessVars, envVars, deployVars, canonVars>>

Next ==
    \/ MainOpen
    \/ SessionCall
    \/ CallAttempt
    \/ Uncaught
    \/ ValidateTruenas
    \/ MainLoop
    \/ DeployQueried
    \/ DeployCompared
    \/ JobSubmitted
    \/ WatchJob

Spec == Init /\ [][Next]_vars

\* ------------------------------------------------------- the watcher alone
\* watch_job entered from the create path on an open, authenticated session,
\* and fed any sequence of records by polls that all succeed (Spec is where
\* polls fail).
InitWatch ==
    /\ pc = "watch"
    /\ exit = "none"
    /\ files = <<"ok">>
    /\ idx = 1
    /\ status = Val("status", "RUNNING")
    /\ c = 1
    /\ transports = <<[open |-> TRUE, authed |-> TRUE, closes |-> 0]>>
    /\ cpc = "idle"
    /\ cur = NoCall
    /\ ret = NoneVal
    /\ faults = 0
    /\ pollCap = MaxPolls
    /\ app_name = 1
    /\ desired = DesiredDoc
    /\ app_exists = Val("rows", <<>>)
    /\ current_config = NoneVal
    /\ decision = "CREATE"
    /\ calls = <<>>
    /\ submitted = Val("id", "j1")
    /\ job_id = "j1"
    /\ WatchIdle
    /\ CanonIdle

NextWatch ==
    \/ SessionCall
    \/ CallAttempt
    \/ WatchJob

SpecWatch == InitWatch /\ [][NextWatch]_vars

\* ------------------------------------------- the watcher on a job that ends
\* watch_job entered as in InitWatch, on a job that reports a terminal state
\* at the latest on poll MaxLivePolls.
InitWatchLive ==
    /\ pc = "watch"
    /\ exit = "none"
    /\ files = <<"ok">>
    /\ idx = 1
    /\ status = Val("status", "RUNNING")
    /\ c = 1
    /\ transports = <<[open |-> TRUE, authed |-> TRUE, closes |-> 0]>>
    /\ cpc = "idle"
    /\ cur = NoCall
    /\ ret = NoneVal
    /\ faults = 0
    /\ pollCap = MaxLivePolls
    /\ app_name = 1
    /\ desired = DesiredDoc
    /\ app_exists = Val("rows", <<>>)
    /\ current_config = NoneVal
    /\ decision = "CREATE"
    /\ calls = <<>>
    /\ submitted = Val("id", "j1")
    /\ job_id = "j1"
    /\ WatchIdle
    /\ CanonIdle

\* A poll that succeeds; the last poll within the bound finds the job ended.
PollLive ==
    /\ CallAttempt
    /\ IF Len(polled) + 1 < pollCap THEN TRUE ELSE ret'.v.state \in Terminal

NextWatchLive ==
    \/ SessionCall
    \/ PollLive
    \/ WatchJob

\* The program is sequential and every RPC is answered: it takes its next
\* step whenever it has one.
SpecWatchLive == InitWatchLive /\ [][NextWatchLive]_vars /\ WF_vars(NextWatchLive)

\* ------------------------------------------------------- the session alone
\* A TNSession driven by any sequence of open(), close() and call(), by a
\* caller that catches what they raise.
InitSession ==
    /\ pc = "session"
    /\ exit = "none"
    /\ files = <<>>
    /\ idx = 0
    /\ status = NoneVal
    /\ c = 0
    /\ transports = <<>>
    /\ cpc = "idle"
    /\ cur = NoCall
    /\ ret = NoneVal
    /\ faults = MaxFaults
    /\ pollCap = 0
    /\ DeployIdle
    /\ WatchIdle
    /\ CanonIdle

\* Whether open() may connect once more within the bound.
MayConnect == IF c = 0 THEN Len(transports) < MaxTransports ELSE TRUE

\* TNSession.open (lines 42-54), called by the driver.
SessOpen ==
    /\ pc = "session"
    /\ cpc = "idle"
    /\ MayConnect
    /\ \E o \in OpenOutcomes(c, faults) :
          LET r == open(c, transports, o) IN
          /\ c' = r.c
          /\ transports' = r.transports
          /\ faults' = faults - OpenCost(o)
    /\ UNCHANGED <<mainVars, callVars, pollCap, deployVars, watchVars, canonVars>>

\* TNSession.close (lines 56-61), called by the driver.
SessClose ==
    /\ pc = "session"
    /\ cpc = "idle"
    /\ transports' = CloseTransports(c, transports)
    /\ c' = 0
    /\ UNCHANGED <<mainVars, callVars, envVars, deployVars, watchVars, canonVars>>

\* TNSession.call (line 63), called by the driver.
SessCall ==
    /\ pc = "session"
    /\ MayConnect
    /\ SessionCall

\* call has returned or raised, and the driver goes on.
SessReturn ==
    /\ pc = "session"
    /\ cpc \in {"ret", "exc"}
    /\ cpc' = "idle"
    /\ cur' = NoCall
    /\ ret' = NoneVal
    /\ calls' = <<>>
    /\ UNCHANGED <<mainVars, sessVars, envVars, app_name, desired, app_exists, current_config,
                   decision, submitted, job_id, watchVars, canonVars>>

NextSession ==
    \/ SessOpen
    \/ SessClose
    \/ SessCall
    \/ CallAttempt
    \/ SessReturn

SpecSession == InitSession /\ [][NextSession]_vars

\* --------------------------------------------------- the canonicalizer alone
RunIdle ==
    /\ pc = "canon"
    /\ exit = "none"
    /\ files = <<>>
    /\ idx = 0
    /\ status = NoneVal
    /\ c = 0
    /\ transports = <<>>
    /\ cpc = "idle"
    /\ cur = NoCall
    /\ ret = NoneVal
    /\ faults = 0
    /\ pollCap = 0
    /\ DeployIdle
    /\ WatchIdle

InitCanon == cx \in Docs2 /\ cy = <<>> /\ EquivIdle /\ RunIdle

\* canonicalize applied to the input, then to its own result.
Canonicalize ==
    /\ pc = "canon"
    /\ Len(cy) < 2
    /\ cy' = Append(cy, canonicalize(IF cy = <<>> THEN cx ELSE cy[Len(cy)]))
    /\ UNCHANGED <<cx, ea, eb, eres, mainVars, sessVars, callVars, envVars, deployVars, watchVars>>

SpecCanon == InitCanon /\ [][Canonicalize]_vars

\* ------------------------------------------------------ json_equivalent alone
\* The permutations of a sequence.
Perms(s) ==
    {[i \in 1..Len(s) |-> s[p[i]]] :
        p \in {q \in [1..Len(s) -> 1..Len(s)] : \A i, j \in 1..Len(s) : i # j => q[i] # q[j]}}

\* The sequences that take their i-th element from choices[i].
Picks(choices) ==
    {t \in [1..Len(choices) -> UNION {choices[i] : i \in 1..Len(choices)}] :
        \A i \in 1..Len(choices) : t[i] \in choices[i]}

\* The documents obtained from d by reordering the keys of its mappings and
\* permuting the elements of its serializable lists, at any depth.
RECURSIVE Reorderings(_)
Reorderings(d) ==
    CASE d[1] = "l" ->
            LET inner == Picks([i \in 1..Len(d[2]) |-> Reorderings(d[2][i])]) IN
            IF Serializable(d)
            THEN UNION {{List(q) : q \in Perms(t)} : t \in inner}
            ELSE {List(t) : t \in inner}
      [] d[1] = "d" ->
            LET inner == Picks([i \in 1..Len(d[2]) |->
                                   {<<d[2][i][1], v>> : v \in Reorderings(d[2][i][2])}])
            IN UNION {{Dict(q) : q \in Perms(t)} : t \in inner}
      [] OTHER -> {d}

\* Documents to compare with any other.
OtherDocs == {Num(1), List(<<Num(2), Num(1)>>), Dict(<<>>)}

\* json_equivalent called on a document and either a reordering of it or
\* one of OtherDocs.
InitEquiv ==
    /\ ea \in Docs2
    /\ eb \in Reorderings(ea) \cup OtherDocs
    /\ eres = <<>>
    /\ cx = Num(1)
    /\ cy = <<>>
    /\ RunIdle

\* json_equivalent(a, b), and with it json_equivalent(b, a) and
\* json_equivalent(a, a).
JsonEquivalent ==
    /\ pc = "canon"
    /\ eres = <<>>
    /\ eres' = <<json_equivalent(ea, eb), json_equivalent(eb, ea), json_equivalent(ea, ea)>>
    /\ UNCHANGED <<cx, cy, ea, eb, mainVars, sessVars, callVars, envVars, deployVars, watchVars>>

SpecEquiv == InitEquiv /\ [][JsonEquivalent]_vars

\* ------------------------------------------------------------------ claims
AppMethods == {"app.query", "app.config", "app.create", "app.update"}
\* How many SESSION.call invocations of the method were made for this definition.
Count(method) == Cardinality({i \in 1..Len(calls) : calls[i].method = method})
\* deploy_app has returned normally to the loop of main.
Returned == pc \in {"loop", "done"}
FoundNone == app_exists.kind = "rows" /\ app_exists.v = <<>>
FoundOne == app_exists.kind = "rows" /\ app_exists.v # <<>>
\* Every poll made so far asked for the job id watch_job was given.
PollsAskFor(id) ==
    \A i \in 1..Len(calls) : calls[i].method = "core.get_jobs" => calls[i].params = <<id>>
\* watch_job was handed the id the submitting RPC answered and ran to a
\* terminal record.
WatchedToTerminal ==
    /\ pc \in {"watch", "loop", "done"} =>
          /\ submitted.kind = "id"
          /\ job_id = submitted.v
          /\ PollsAskFor(job_id)
    /\ Returned =>
          /\ Count("core.get_jobs") >= 1
          /\ watched.kind = "job"
          /\ watched.v.state \in Terminal

\* C1: TNSession.call returns normally only when one of its RPC attempts
\* succeeded, and then returns that attempt's result; when every attempt
\* fails with a transient error the error reaches the caller.
C1_ReturnsOnlyASuccessfulResult ==
    cpc = "ret" =>
        \E i \in 1..Len(cur.sent) : cur.sent[i].kind = "ok" /\ ret = cur.sent[i].v

\* C2: with the default retry budget, a transient failure of the first attempt
\* followed by a successful second attempt: the first transport was closed, a
\* new one was opened and authenticated, the second attempt went out on it,
\* and its result is returned with no error reaching the caller.
C2_Case ==
    /\ cpc = "ret"
    /\ Len(cur.sent) = 2
    /\ cur.sent[1].kind = "transient"
    /\ cur.sent[2].kind = "ok"
C2_ReconnectsAndReturnsSecondResult ==
    C2_Case =>
        LET t1 == cur.sent[1].transport
            t2 == cur.sent[2].transport
        IN
        /\ ret = cur.sent[2].v
        /\ t2 # t1
        /\ t2 = Len(transports)
        /\ c = t2
        /\ ~transports[t1].open
        /\ transports[t1].closes = 1
        /\ transports[t2].open
        /\ transports[t2].authed
        /\ cur.exc = "none"
        /\ exit = "none"
        /\ pc # "aborted"
C2_Witness == C2_Case /\ retries = 1 /\ cur.method = "app.create"

\* C3: whenever the run has ended, normally or not, every transport that was
\* opened has been closed, exactly once.
C3_AllTransportsClosedAtExit ==
    pc \in {"done", "aborted"} =>
        \A i \in 1..Len(transports) : ~transports[i].open /\ transports[i].closes = 1

\* C4: an app.* call is issued, and a definition is taken from the batch, only
\* after docker.status answered RUNNING; on any other status the run aborts
\* with a fatal error before any definition is processed.
C4_ReadinessGate ==
    /\ (\/ \E i \in 1..Len(calls) : calls[i].method \in AppMethods
        \/ cur.method \in AppMethods
        \/ idx > 0)
       => (status.kind = "status" /\ status.v = "RUNNING")
    /\ (status.kind = "status" /\ status.v # "RUNNING")
       => (pc = "aborted" /\ exit = "SystemExit" /\ idx = 0 /\ cpc = "idle")
C4_Witness ==
    /\ status.kind = "status"
    /\ status.v = "UNCONFIGURED"
    /\ pc = "aborted"
    /\ files # <<>>
    /\ files[1] = "ok"

\* C5: create path. When app.query answered that no application of the name
\* exists: exactly one app.create, carrying the parsed document under
\* custom_compose_config with app_name and custom_app, no app.update, no
\* app.config, and the job id app.create answered is polled to a terminal state.
C5_CreatePath ==
    (decision = "CREATE" /\ FoundNone) =>
        /\ Count("app.update") = 0
        /\ Count("app.config") = 0
        /\ Count("app.create") <= 1
        /\ pc \in {"watch", "loop", "done"} => Count("app.create") = 1
        /\ \A i \in 1..Len(calls) : calls[i].method = "app.create" =>
               calls[i].params = <<[app_name |-> app_name, custom_app |-> TRUE,
                                    custom_compose_config |-> desired]>>
        /\ WatchedToTerminal

\* C6: skip path. When the application exists and app.config answered a
\* document equivalent to the desired one: SKIP is emitted, no app.create, no
\* app.update, no job is watched.
\* The (desired, remote) documents json_equivalent holds of.
EquivalentPairs ==
    UNION {IF json_equivalent(p[1], p[2]) THEN {p} ELSE {} : p \in {DesiredDoc} \X RemoteConfigs}
C6_Case ==
    /\ FoundOne
    /\ current_config.kind = "doc"
    /\ <<desired, current_config.v>> \in EquivalentPairs
C6_SkipPath ==
    C6_Case =>
        /\ decision = "SKIP"
        /\ Count("app.create") = 0
        /\ Count("app.update") = 0
        /\ Count("core.get_jobs") = 0
        /\ job_id = None
        /\ polled = <<>>
        /\ watched = NoneVal
        /\ Returned
C6_Witness == C6_Case /\ decision = "SKIP" /\ current_config.v # desired

\* C7: update path. When the application exists and app.config answered a
\* document not equivalent to the desired one: exactly one app.update carrying
\* the full desired document under custom_compose_config, no app.create, and the
\* job id app.update answered is polled to a terminal state.
C7_UpdatePath ==
    (/\ FoundOne
     /\ current_config.kind = "doc"
     /\ <<desired, current_config.v>> \notin EquivalentPairs) =>
        /\ decision = "UPDATE"
        /\ Count("app.create") = 0
        /\ Count("app.update") <= 1
        /\ pc \in {"watch", "loop", "done"} => Count("app.update") = 1
        /\ \A i \in 1..Len(calls) : calls[i].method = "app.update" =>
               calls[i].params = <<app_name, [custom_compose_config |-> desired]>>
        /\ WatchedToTerminal

\* C8: watch_job returns exactly on the first record it fetches whose state is
\* SUCCESS, FAILED or ABORTED, returns that record in full, and polls no more;
\* it never returns on a record in another state.
C8_ReturnsOnFirstTerminalRecord ==
    /\ \A i \in 1..Len(polled) : polled[i].state \in Terminal => i = Len(polled)
    /\ (polled # <<>> /\ polled[Len(polled)].state \in Terminal) =>
          /\ pc = "loop"
          /\ cpc = "idle"
          /\ fetched.kind = "job"
          /\ fetched.v.state = polled[Len(polled)].state
          /\ watched = fetched
          /\ Count("core.get_jobs") = Len(polled)
    /\ pc = "loop" =>
          /\ polled # <<>>
          /\ polled[Len(polled)].state \in Terminal
          /\ watched.kind = "job"
          /\ watched.v.state \in Terminal
C8_Witness ==
    /\ pc = "loop"
    /\ Len(polled) = 3
    /\ polled[1].state = "RUNNING"
    /\ watched.kind = "job"
    /\ watched.v.state = "ABORTED"
    /\ watched.v.logs_excerpt = "log"

\* The percent and description of a polled record or of a status line.
Pair(e) == <<e.percent, e.description>>
\* The status lines printed before poll i.
LinesBefore(i) == {j \in 1..Len(lines) : lines[j].at < i}
\* The pair of the last status line printed before poll i, given one exists.
LastPairBefore(i) ==
    Pair(lines[CHOOSE j \in LinesBefore(i) : \A k \in LinesBefore(i) : k <= j])
\* A status line was printed on poll i (carrying that record's pair).
PrintedAt(i) == \E j \in 1..Len(lines) : lines[j].at = i /\ Pair(lines[j]) = Pair(polled[i])
Percents_0_50_50_100 ==
    /\ Len(polled) = 4
    /\ polled[1].percent = "0"
    /\ polled[2].percent = "50"
    /\ polled[3].percent = "50"
    /\ polled[4].percent = "100"
    /\ \A i \in 1..4 : polled[i].description = polled[1].description

\* C9 as stated: a status line is printed on a poll exactly when the record's
\* (percent, description) differs from the pair of the last status line
\* printed; with no status line printed yet there is nothing to be equal to.
C9_PrintsExactlyOnChange ==
    \A i \in 1..Len(polled) :
        PrintedAt(i) <=> (LinesBefore(i) = {} \/ Pair(polled[i]) # LastPairBefore(i))

\* C9 as amended: a status line is printed on a poll exactly when the record's
\* (percent, description) differs from the pair of the last status line
\* printed, or, while no status line has been printed, from (None, None); no two
\* consecutive status lines carry the same pair; for percents 0, 50, 50, 100
\* the lines are printed on polls 1, 2 and 4 only.
C9_PrintsOnChangeFromNone ==
    /\ \A i \in 1..Len(polled) :
          PrintedAt(i) <=>
              Pair(polled[i]) # (IF LinesBefore(i) = {} THEN <<None, None>>
                                 ELSE LastPairBefore(i))
    /\ \A j \in 1..Len(lines) :
          /\ lines[j].at \in 1..Len(polled)
          /\ j < Len(lines) => lines[j].at < lines[j + 1].at
          /\ j < Len(lines) => Pair(lines[j]) # Pair(lines[j + 1])
    /\ Percents_0_50_50_100 => [j \in 1..Len(lines) |-> lines[j].at] = <<1, 2, 4>>
C9_Witness ==
    /\ Percents_0_50_50_100
    /\ [j \in 1..Len(lines) |-> lines[j].at] = <<1, 2, 4>>
    /\ pc = "loop"
    /\ watched.v.state = "SUCCESS"

\* C10: canonicalize applied to its own result gives that result again.
C10_Idempotent == Len(cy) = 2 => PyEq(cy[2], cy[1])

\* C11: json_equivalent(a, b) = json_equivalent(b, a), json_equivalent(a, a)
\* is true, and json_equivalent(a, b) is true whenever b is a reordering of a
\* (mapping keys reordered, serializable lists permuted, at any depth).
C11_ReflexiveSymmetricOrderInsensitive ==
    eres # <<>> =>
        /\ eres[1] = eres[2]
        /\ eres[3]
        /\ eb \in Reorderings(ea) => eres[1]

\* A login returned falsy: open() closed the transport it had just opened (a
\* login that raises leaves its transport open).
LoginRefused ==
    \E i \in 1..Len(transports) : ~transports[i].authed /\ ~transports[i].open
C12_State ==
    LoginRefused =>
        LET n == Len(transports) IN
        /\ \A i \in 1..n : (~transports[i].authed /\ ~transports[i].open) => i = n
        /\ transports[n].closes = 1
        /\ c = 0
        /\ \A i \in 1..n : ~transports[i].open
        /\ \A k \in 1..Len(cur.sent) : cur.sent[k].transport < n
        /\ \/ pc = "aborted" /\ exit = "SystemExit"
           \/ cpc = "exc" /\ cur.exc = "SystemExit" /\ exit = "none"
C12_Step ==
    LoginRefused =>
        /\ UNCHANGED <<sessVars, cur, ret, calls, idx>>
        /\ pc' = "aborted"
        /\ exit' = "SystemExit"

\* C12: after a login that returned falsy (at the first open or at a reconnect
\* inside call) the transport just opened is closed, the session holds no
\* handle, the run ends with SystemExit, and no RPC is issued any more.
C12_FalsyLoginEndsTheRun == []C12_State /\ [][C12_Step]_vars
C12_Witness ==
    /\ LoginRefused
    /\ Len(transports) = 2
    /\ Len(cur.sent) = 1
    /\ cur.sent[1].kind = "transient"
    /\ pc = "aborted"

\* The kinds of regular file validate_and_normalize rejects.
Rejected == {"badext", "malformed", "notmapping"}
\* The loop has taken an entry that validate_and_normalize rejects.
TookRejected == \E i \in 1..idx : files[i] \in Rejected
C13_State ==
    TookRejected =>
        /\ files[idx] \in Rejected
        /\ \A i \in 1..(idx - 1) : files[i] \notin Rejected
        /\ pc = "aborted"
        /\ exit = "error"
        /\ calls = <<>>
        /\ cpc = "idle"
        /\ cur = NoCall
        /\ desired = None

\* C13: a definition that validate_and_normalize rejects (unsupported
\* extension, malformed content, top-level value not a mapping) aborts the
\* batch: no RPC is issued for it, the run has ended with the error, and no
\* step (no RPC, no later definition) follows.
C13_RejectedDefinitionAbortsBatch == []C13_State /\ [][~TookRejected]_vars
C13_Witness ==
    /\ files = <<"ok", "notmapping">>
    /\ idx = 2
    /\ pc = "aborted"
    /\ exit = "error"

\* watch_job is about to process a record in the given state.
Fetched(state) ==
    pc = "watch" /\ cpc = "ret" /\ ret.kind = "job" /\ ret.v.state = state
\* watch_job has returned a record in the given state and main is back in
\* its loop, before the next entry.
ReturnedIn(state) ==
    pc \in {"loop", "done"} /\ watched.kind = "job" /\ watched.v.state = state
C14_State ==
    \A state \in {"FAILED", "ABORTED"} :
        ReturnedIn(state) =>
            /\ exit = "none"
            /\ cpc = "idle"
            /\ c # 0
            /\ pc = "loop" => ENABLED MainLoop
C14_Step ==
    \A state \in Terminal :
        /\ Fetched(state) =>
              /\ pc' = "loop"
              /\ watched' = ret
              /\ UNCHANGED <<exit, files, idx, status, sessVars, envVars>>
        /\ (pc = "loop" /\ ReturnedIn(state)) =>
              IF idx < Len(files)
              THEN idx' = idx + 1 /\ pc' \in {"loop", "query", "aborted"}
              ELSE idx' = idx /\ pc' = "done"

\* C14: a job that ends FAILED or ABORTED makes watch_job return the record
\* (nothing is raised), and main goes on to the next entry as after SUCCESS:
\* the step that returns the record and the step the loop takes next do not
\* depend on which terminal state it was.
C14_FailedJobDoesNotStopTheRun == []C14_State /\ [][C14_Step]_vars
C14_Witness ==
    /\ ReturnedIn("FAILED")
    /\ pc = "loop"
    /\ idx = 1
    /\ Len(files) = 2
    /\ files[2] = "ok"

C15_State ==
    /\ \A i \in 1..Len(transports) :
          /\ transports[i].open => i = c
          /\ transports[i].closes <= 1
          /\ transports[i].open <=> transports[i].closes = 0
    /\ c # 0 => transports[c].open
C15_Step ==
    /\ (SessOpen /\ c # 0) => UNCHANGED sessVars
    /\ (SessCall /\ c # 0) => UNCHANGED sessVars
    /\ (SessClose /\ c = 0) => UNCHANGED sessVars
    /\ SessClose => (c' = 0 /\ CloseTransports(c', transports') = transports')
    /\ Len(transports') > Len(transports) =>
          /\ Len(transports') = Len(transports) + 1
          /\ \A i \in 1..Len(transports) : ~transports'[i].open
    /\ (c # 0 /\ cpc # "try") => Len(transports') = Len(transports)

\* C15: the session is Closed (no handle) or Open (one handle): open() on an
\* Open session connects nothing and logs in nowhere, close() on a Closed one
\* changes nothing and a second close() changes nothing more, a transport is
\* connected only when none is held (by open(), or by call() after it closed
\* the one it held), and at most one transport is open at any time.
C15_TwoStateSession == []C15_State /\ [][C15_Step]_vars
C15_Witness ==
    /\ pc = "session"
    /\ Len(transports) = 3
    /\ c = 3
    /\ transports[1].closes = 1
    /\ transports[2].closes = 1
    /\ transports[3].open
    /\ cpc = "idle"

\* The last RPC attempt of the call in progress raised a non-transient error.
LastAttemptFatal == cur.sent # <<>> /\ cur.sent[Len(cur.sent)].kind = "fatal"
C16_State ==
    \A k \in 1..Len(cur.sent) :
        cur.sent[k].kind = "fatal" =>
            /\ k = Len(cur.sent)
            /\ cur.attempt = k - 1
            /\ cpc = "exc"
            /\ cur.exc = "error"
            /\ c # 0
            /\ c = cur.sent[k].transport
            /\ transports[c].open
            /\ transports[c].closes = 0
            /\ Len(transports) = c
C16_Step ==
    /\ (cpc = "try" /\ LastAttemptFatal') =>
          /\ UNCHANGED <<sessVars, ret>>
          /\ cpc' = "exc"
          /\ cur'.attempt = cur.attempt
    /\ LastAttemptFatal =>
          /\ UNCHANGED <<sessVars, callVars, calls>>
          /\ pc' = "aborted"
          /\ exit' = "error"

\* C16: a non-transient error of an RPC attempt leaves call at once: the
\* attempt is the last one, nothing is closed or reopened (the session holds
\* the same open transport, the newest one), and the error reaches the caller.
C16_FatalErrorPropagatesAtOnce == []C16_State /\ [][C16_Step]_vars
C16_Witness ==
    /\ LastAttemptFatal
    /\ Len(cur.sent) = 2
    /\ cur.sent[1].kind = "transient"
    /\ cur.method = "app.update"
    /\ pc = "aborted"
    /\ exit = "error"

\* How many times the call in progress ran its sleep, close and reopen step
\* (lines 75-77): once for every attempt that raised a transient error.
Reconnects == Cardinality({k \in 1..Len(cur.sent) : cur.sent[k].kind = "transient"})

\* C17: one invocation of call makes at most retries + 1 RPC attempts, and
\* runs its sleep, close and reopen step only before a retry, hence at most
\* `retries` times.
C17_BoundedRetry ==
    /\ Len(cur.sent) <= retries + 1
    /\ Reconnects <= retries

C18_State ==
    (pc = "watch" /\ cpc = "idle") => (exit = "none" /\ ENABLED SessionCall)
C18_Step ==
    (pc = "watch" /\ pc' # "watch") =>
        /\ ret.kind = "job"
        /\ ret.v.state \in Terminal
        /\ pc' = "loop"
        /\ watched' = ret

\* C18: while the job is not in a terminal state watch_job polls again (it
\* leaves its loop on a terminal record only, and between polls the next poll
\* is always enabled); when every poll succeeds and the job comes to report
\* SUCCESS, FAILED or ABORTED, watch_job eventually returns.
C18_WatcherReturns ==
    /\ []C18_State
    /\ [][C18_Step]_vars
    /\ (pc = "watch") ~> (pc = "loop" /\ watched.kind = "job" /\ watched.v.state \in Terminal)
C18_Witness ==
    /\ pc = "loop"
    /\ Len(polled) = MaxLivePolls
    /\ \A i \in 1..(MaxLivePolls - 1) : polled[i].state = "RUNNING"
    /\ watched.kind = "job"
    /\ watched.v.state = "FAILED"

\* C19: app.create is issued only after the app.query RPC answered an empty
\* result, and watch_job is started only with a job id the app.create or
\* app.update RPC answered.
C19_CreateOnlyAfterEmptyQuery ==
    /\ (pc = "create" \/ decision = "CREATE" \/ Count("app.create") > 0) => FoundNone
    /\ (pc = "watch" \/ Count("core.get_jobs") > 0) =>
          (submitted.kind = "id" /\ job_id = submitted.v)

\* C20: the transport the session holds has completed a successful login, and
\* every RPC attempt of a call went out on a transport that had.
C20_HeldTransportIsAuthenticated ==
    /\ c # 0 => transports[c].authed
    /\ \A k \in 1..Len(cur.sent) :
          cur.sent[k].transport # 0 => transports[cur.sent[k].transport].authed
====
